---- MODULE Spec2Model ----
(***************************************************************************)
(* WhisperService (python-service/app/whisper_service.py): one model,      *)
(* loaded and swapped by load_model, used by transcribe_audio, released by *)
(* cleanup.  The public methods are coroutines of one asyncio event loop:  *)
(* a coroutine runs without interruption from one await to the next, so    *)
(* every action below is the code between two awaits.  The blocking work   *)
(* (_load_model_sync, _transcribe_sync) runs on the threads of a           *)
(* ThreadPoolExecutor, concurrently with the loop.                         *)
(***************************************************************************)
EXTENDS Integers, Sequences, FiniteSets, TLC

\* ---------------------------------------------------------------- bounds
NumCallers == 2        \* coroutines (requests) that call the service
MaxLoads == 2          \* load tasks submitted to the executor in one run
NumRequests == 4       \* transcription requests in flight against a loaded model
MaxJobs == 3           \* jobs created in one run
MaxTime == 2           \* the clock of the job registry runs from 0 to MaxTime
NumThreads == 3        \* threads that call WhisperService() concurrently

\* ------------------------------------------------------ program constants
max_concurrent_transcriptions == 3      \* Settings.max_concurrent_transcriptions
cleanup_temp_files == TRUE              \* Settings.cleanup_temp_files

Callers == 1..NumCallers
Requests == 1..NumRequests
None == "None"
settings_model_size == "base"           \* Settings.model_size
ModelSizes == {"tiny", "base"}          \* two of Settings.available_model_sizes
SizeArgs == ModelSizes \cup {None}      \* Optional[str] model_size argument
InvalidSize == "huge"                   \* a size outside available_model_sizes
NoTime == -1                            \* _model_load_time is None
\* time.time() is not modelled as a number: a timestamp is named by the load
\* whose installation read it, a duration is either the literal 0.0 or a
\* measured difference of two readings.
TimeOfLoad(id) == id
Zero == "0.0"
Elapsed == "time.time() - start_time"

VARIABLES
    model,                  \* self._model: None or the loaded model object
    model_size,             \* self._model_size
    model_load_time,        \* self._model_load_time
    is_loading,             \* self._is_loading
    active_transcriptions,  \* self._active_transcriptions
    queue,                  \* self._executor: work items not yet picked up
    running,                \* self._executor: work items a pool thread executes
    shutdown,               \* self._executor: shutdown() was called
    futures,                \* per caller: the future its coroutine awaits
    pc,                     \* per caller: where its coroutine is suspended
    call,                   \* per caller: the public method it is inside
    outcome,                \* the latest return or raise of a call, and its caller
    loads,                  \* load tasks submitted so far (names model objects)
    handler,                \* per caller: the endpoint handler of main.py it is inside
    temp_files,             \* callers whose upload sits in a temporary file
    response,               \* the latest HTTP response sent
    overdue,                \* callers whose transcription has been in progress for
                            \* more than Settings.request_timeout_seconds
    jobs,                   \* JobManager: the registry, job id -> Job
    next_job,               \* JobManager: ids generated so far
    creating,               \* per caller: the id of the Job it built and has not registered yet
    issued,                 \* the ids create_job has returned, in order
    removed,                \* the ids delete_job or cleanup_old_jobs took out of the registry
    now,                    \* the clock created_at is read from
    processed,              \* callers whose preprocessed audio file is on disk
    instance,               \* WhisperService._instance: 0 is None, else the object
    lock,                   \* WhisperService._lock: the thread holding it, 0 when free
    initialized,            \* hasattr(self, '_initialized')
    executors,              \* ThreadPoolExecutors the runs of __init__ have created
    thread                  \* per thread calling WhisperService(): its position
                            \* and the object __new__ returned to it

svc == <<model, model_size, model_load_time, is_loading, active_transcriptions>>
pool == <<queue, running, shutdown>>
api == <<handler, temp_files, response>>
timers == <<overdue>>
registry == <<jobs, next_job, creating, issued, removed, now>>
files == <<processed>>
construction == <<instance, lock, initialized, executors, thread>>
vars == <<model, model_size, model_load_time, is_loading, active_transcriptions,
          queue, running, shutdown, futures, pc, call, outcome, loads,
          handler, temp_files, response, overdue,
          jobs, next_job, creating, issued, removed, now,
          processed, instance, lock, initialized, executors, thread>>

\* A model object: what whisper.load_model(size) returned, named by the load.
ModelObject(size, id) == [size |-> size, id |-> id]
NoModel == [size |-> None, id |-> 0]    \* self._model is None

NoFuture == [state |-> "none", value |-> NoModel, error |-> None]
PendingFuture == [state |-> "pending", value |-> NoModel, error |-> None]
DoneFuture(value, error) == [state |-> "done", value |-> value, error |-> error]

NoCall == [op |-> "none", size |-> None]

\* What a call handed back: a returned value or a raised exception.
Outcome(kind, size, message, cause, seconds, used, ranOn) ==
    [caller |-> 0, op |-> "none", kind |-> kind, model_size |-> size,
     message |-> message, original_error |-> cause,
     load_time_seconds |-> seconds, model_used |-> used, ran_on |-> ranOn]
NoOutcome == Outcome("none", None, None, None, Zero, None, NoModel)

\* A Job: job_id is its key in the registry.
Job(status, progress, message, result, error, created_at) ==
    [status |-> status, progress |-> progress, message |-> message,
     result |-> result, error |-> error, created_at |-> created_at]
\* Job(job_id), constructed at time t.
NewJob(t) == Job("PENDING", 0, None, None, None, t)
NoJobs == [id \in {} |-> NewJob(0)]
\* A Job that create_job has constructed and not yet put into the registry.
Creation(id, t) == [id |-> id, at |-> t]
NoCreation == Creation(0, 0)
\* JobManager(): no job, no id generated.
NoRegistry ==
    /\ jobs = NoJobs
    /\ next_job = 0
    /\ creating = [c \in Callers |-> NoCreation]
    /\ issued = <<>>
    /\ removed = {}
    /\ now = 0

\* An HTTP response: the endpoint that sent it and its status code.
Response(endpoint, status) == [endpoint |-> endpoint, status |-> status]
NoResponse == Response("none", 0)

\* A thread calling WhisperService(): where it is, and the object __new__
\* returned to it (0 before that).
Thread(at, self) == [at |-> at, self |-> self]
Threads == 1..NumThreads

\* The class as defined: no instance yet.
Unconstructed ==
    /\ instance = 0
    /\ lock = 0
    /\ initialized = FALSE
    /\ executors = 0
    /\ thread = [t \in Threads |-> Thread("start", 0)]

\* "whisper_service = WhisperService()" has run at import, in one thread.
Constructed ==
    /\ instance = 1
    /\ lock = 0
    /\ initialized = TRUE
    /\ executors = 1
    /\ thread = [t \in Threads |-> Thread("done", 1)]

\* The fields as __init__ assigns them and no request under way.
NoActivity ==
    /\ model = NoModel
    /\ model_size = None
    /\ model_load_time = NoTime
    /\ is_loading = FALSE
    /\ active_transcriptions = 0
    /\ queue = <<>>
    /\ running = {}
    /\ shutdown = FALSE
    /\ futures = [c \in Callers |-> NoFuture]
    /\ pc = [c \in Callers |-> "idle"]
    /\ call = [c \in Callers |-> NoCall]
    /\ outcome = NoOutcome
    /\ loads = 0
    /\ handler = [c \in Callers |-> "none"]
    /\ temp_files = {}
    /\ response = NoResponse
    /\ overdue = {}
    /\ NoRegistry
    /\ processed = {}

Init == NoActivity /\ Constructed

\* The event loop thread is inside executor.shutdown(wait=True): no coroutine runs.
LoopBlocked == \E c \in DOMAIN pc : pc[c] = "cleanup_join"

\* ------------------------------------------------------------ the executor
\* A work item: the function run_in_executor was given, and for whom.
LoadTask(c, size, id) ==
    [kind |-> "load", caller |-> c, size |-> size, id |-> id, uses |-> NoModel]
TranscribeTask(c) ==
    [kind |-> "transcribe", caller |-> c, size |-> None, id |-> 0, uses |-> NoModel]

\* An executor that starts a thread for every work item.
WorkerFree_Unbounded == TRUE

\* An executor that starts no work item while a load holds the loading state.
WorkerFree_HeldWhileLoading ==
    Cardinality(running) < max_concurrent_transcriptions /\ ~is_loading

\* ThreadPoolExecutor(max_workers=...): a free thread exists for the next work item.
WorkerFree == Cardinality(running) < max_concurrent_transcriptions

\* A pool thread takes the oldest work item.  _transcribe_sync reads self._model
\* when it runs, not when it was submitted.
WorkerStart ==
    /\ queue # <<>>
    /\ WorkerFree
    /\ LET t == Head(queue) IN
        running' = running \cup
            {IF t.kind = "transcribe" THEN [t EXCEPT !.uses = model] ELSE t}
    /\ queue' = Tail(queue)
    /\ UNCHANGED <<svc, shutdown, futures, pc, call, outcome, loads>>

\* _load_model_sync returns the model whisper.load_model built, or re-raises.
LoadSyncResult(t, ok) ==
    IF ok THEN DoneFuture(ModelObject(t.size, t.id), None)
    ELSE DoneFuture(NoModel, "LoaderError")

\* A pool task whose exception completes no future: the failure is lost in the
\* worker thread and the awaiting coroutine is never resumed.
TranscribeSyncResult_FailureLost(t, ok) ==
    IF t.uses # NoModel /\ ok THEN DoneFuture(t.uses, None) ELSE PendingFuture

\* A pool task that looks self._model up again when its call ends, and so hands
\* back the work of whatever model is installed by then.
TranscribeSyncResult_RereadsModel(t, ok) ==
    IF model = NoModel THEN DoneFuture(NoModel, "AttributeError")
    ELSE IF ok THEN DoneFuture(model, None)
    ELSE DoneFuture(NoModel, "ModelError")

\* _transcribe_sync returns self._model.transcribe(...), or re-raises; with no
\* model the attribute access itself raises.
TranscribeSyncResult(t, ok) ==
    IF t.uses = NoModel THEN DoneFuture(NoModel, "AttributeError")
    ELSE IF ok THEN DoneFuture(t.uses, None)
    ELSE DoneFuture(NoModel, "ModelError")

\* The blocking call of a work item ends and its future is completed.
WorkerFinish(t, ok) ==
    /\ t \in running
    /\ running' = running \ {t}
    /\ futures' = [futures EXCEPT ![t.caller] =
            IF t.kind = "load" THEN LoadSyncResult(t, ok) ELSE TranscribeSyncResult(t, ok)]
    /\ UNCHANGED <<svc, queue, shutdown, pc, call, outcome, loads>>

\* --------------------------------------------------------------- load_model
\* model_size defaults to the configured size.
Resolve(m) == IF m = None THEN settings_model_size ELSE m

\* A load_model without the already-loaded shortcut.
AlreadyLoaded_Never(m) == FALSE

\* "Check if model is already loaded"
AlreadyLoaded(m) == model # NoModel /\ model_size = m /\ ~is_loading

\* A load_model that lacks the concurrent-loading check.
ConcurrentLoad_Unchecked == FALSE

\* "Prevent concurrent loading"
ConcurrentLoad == is_loading

\* A load_model that resets the flag on the success path only.
LoadingAfterFinally_SuccessOnly(raised) == raised

\* The value of _is_loading when load_model leaves its try statement.
LoadingAfterFinally(raised) == FALSE

AlreadyLoadedResult(m) ==
    Outcome("LoadResult", m, "already loaded", None, Zero, None, NoModel)
LoadInProgressError(m) ==
    Outcome("ModelLoadFailed", m, "Model is already being loaded", None, Zero, None, NoModel)
LoadFailedError(m, cause) ==
    Outcome("ModelLoadFailed", m, "Failed to load model", cause, Zero, None, NoModel)
LoadedResult(m) ==
    Outcome("LoadResult", m, "loaded successfully", None, Elapsed, None, NoModel)

\* How a load_model(m) call leaves its synchronous prefix: a cached answer, the
\* concurrent-load rejection, run_in_executor refusing the task (the executor is
\* shut down; the RuntimeError is raised inside the try), or the task submitted.
LoadEntry(m) ==
    IF AlreadyLoaded(m) THEN "cached"
    ELSE IF ConcurrentLoad THEN "in_progress"
    ELSE IF shutdown THEN "submit_failed"
    ELSE "submitted"

\* A load_model whose concurrent-loading check sits inside the try, so that the
\* finally of the rejected call resets the flag of the running load.
LoadEnter_RejectionReleases(c, m, e) ==
    /\ is_loading' = (e = "submitted")
    /\ loads' = IF e = "submitted" THEN loads + 1 ELSE loads
    /\ UNCHANGED <<model, model_size, model_load_time, running, shutdown>>

\* What the synchronous prefix of load_model(m) does to the service and the pool.
LoadEnter(c, m, e) ==
    /\ is_loading' = (IF e = "submitted" THEN TRUE
                      ELSE IF e = "submit_failed" THEN LoadingAfterFinally(TRUE)
                      ELSE is_loading)
    /\ loads' = IF e = "submitted" THEN loads + 1 ELSE loads
    /\ UNCHANGED <<model, model_size, model_load_time, running, shutdown>>

\* A load_model that drops the current model whenever the loader has run.
ModelAfterLoad_Always(f) == f.value

\* self._model after "self._model = await loop.run_in_executor(...)": the
\* assignment happens only when the await returns a value.
ModelAfterLoad(f) == IF f.error = None THEN f.value ELSE model

\* What load_model(m) raises when it ends in its synchronous prefix.
LoadEntryError(m, e) ==
    IF e = "in_progress" THEN LoadInProgressError(m)
    ELSE LoadFailedError(m, "RuntimeError")

\* --------------------------------------------------------- transcribe_audio
ModelNotLoadedError ==
    Outcome("ModelNotLoaded", None, "No model is currently loaded", None, Zero, None, NoModel)
\* An except clause that raises TranscriptionFailed without the cause.
TranscriptionFailedError_CauseDropped(cause) ==
    Outcome("TranscriptionFailed", None, "Transcription failed", None, Zero, None, NoModel)

\* A transcribe_audio that lets the error of validate_audio_file through as it
\* was raised and wraps only the other failures.
TranscriptionFailedError_ValidationUnwrapped(cause) ==
    IF cause = "validate_audio_file"
    THEN Outcome("AudioProcessingError", None, "Audio validation failed", None,
                 Zero, None, NoModel)
    ELSE Outcome("TranscriptionFailed", None, "Transcription failed", cause,
                 Zero, None, NoModel)

\* "raise TranscriptionFailed(message=..., original_error=str(e), ...)"
TranscriptionFailedError(cause) ==
    Outcome("TranscriptionFailed", None, "Transcription failed", cause, Zero, None, NoModel)
\* _create_transcription_response: model_used is self._model_size at that moment.
TranscriptionResponse(ranOn) ==
    Outcome("TranscriptionResponse", None, None, None, Zero, model_size, ranOn)

\* A transcribe_audio without the no-model check.
ModelIsNone_Unchecked == FALSE

\* "if self._model is None: raise ModelNotLoaded"
ModelIsNone == model = NoModel

\* A transcribe_audio whose load_model call sits inside its try, so that a load
\* error is wrapped like any other failure.
Propagated_Wrapped(op, err) ==
    IF op = "transcribe"
    THEN Outcome("TranscriptionFailed", None, "Transcription failed", err.message,
                 Zero, None, NoModel)
    ELSE err

\* An exception leaving the load_model call of transcribe_audio: the call is
\* outside the try, so the exception passes through as it is.
Propagated(op, err) == err

\* A transcribe_audio that never decrements the counter.
ActiveAfterFinally_NoDecrement(n) == n

\* The counter after the outer finally of transcribe_audio.
ActiveAfterFinally(n) == n - 1

\* The step that stops transcribe_audio before it awaits the pool: validation
\* or preprocessing raised, or run_in_executor refused the task.
BeginFailure(fail) ==
    IF fail # "none" THEN fail
    ELSE IF shutdown THEN "RuntimeError"
    ELSE "none"

\* transcribe_audio from start_time to the await of the pool: count the
\* transcription, validate, preprocess, submit _transcribe_sync.
TranscribeBegin(c, fail) ==
    IF BeginFailure(fail) = "none"
       THEN /\ active_transcriptions' = active_transcriptions + 1
            /\ queue' = Append(queue, TranscribeTask(c))
            /\ futures' = [futures EXCEPT ![c] = PendingFuture]
            /\ pc' = [pc EXCEPT ![c] = "transcribe_await"]
            /\ call' = [call EXCEPT ![c] = [op |-> "transcribe", size |-> None]]
            /\ UNCHANGED outcome
       ELSE /\ active_transcriptions' = ActiveAfterFinally(active_transcriptions + 1)
            /\ futures' = [futures EXCEPT ![c] = NoFuture]
            /\ pc' = [pc EXCEPT ![c] = "idle"]
            /\ call' = [call EXCEPT ![c] = NoCall]
            /\ outcome' = [TranscriptionFailedError(BeginFailure(fail))
                               EXCEPT !.caller = c, !.op = "transcribe"]
            /\ UNCHANGED queue

\* A caller returns from, or is thrown out of, its call.
Finish(c, op, o) ==
    /\ pc' = [pc EXCEPT ![c] = "idle"]
    /\ outcome' = [o EXCEPT !.caller = c, !.op = op]
    /\ futures' = [futures EXCEPT ![c] = NoFuture]
    /\ call' = [call EXCEPT ![c] = NoCall]

\* load_model submits _load_model_sync and suspends on its future; op is the
\* method the request called (load_model itself, or transcribe_audio).
AwaitLoad(c, m, op) ==
    /\ queue' = Append(queue, LoadTask(c, m, loads + 1))
    /\ futures' = [futures EXCEPT ![c] = PendingFuture]
    /\ pc' = [pc EXCEPT ![c] = "load_await"]
    /\ call' = [call EXCEPT ![c] = [op |-> op, size |-> m]]
    /\ UNCHANGED outcome

\* await load_model(size), called by a request: up to its first await.
LoadModel(c, size) ==
    LET m == Resolve(size)
        e == LoadEntry(m)
    IN  /\ pc[c] = "idle"
        /\ ~LoopBlocked
        /\ e = "submitted" => loads < MaxLoads
        /\ LoadEnter(c, m, e)
        /\ IF e = "submitted"
           THEN AwaitLoad(c, m, "load")
           ELSE /\ Finish(c, "load", IF e = "cached" THEN AlreadyLoadedResult(m)
                                     ELSE LoadEntryError(m, e))
                /\ UNCHANGED queue
        /\ UNCHANGED active_transcriptions

\* await transcribe_audio(file, size), called by a request: up to its first await.
\* fail names the step of this call that raises, if any.
TranscribeAudio(c, size, fail) ==
    /\ pc[c] = "idle"
    /\ ~LoopBlocked
    /\ IF ModelIsNone
       THEN /\ Finish(c, "transcribe", ModelNotLoadedError)
            /\ UNCHANGED <<svc, queue, running, shutdown, loads>>
       ELSE IF size # None /\ size # model_size
       THEN LET e == LoadEntry(size)
            IN  /\ e = "submitted" => loads < MaxLoads
                /\ LoadEnter(c, size, e)
                /\ CASE e = "submitted" ->
                            AwaitLoad(c, size, "transcribe")
                            /\ UNCHANGED active_transcriptions
                     [] e = "cached" -> TranscribeBegin(c, fail)
                     [] OTHER ->
                            /\ Finish(c, "transcribe",
                                      Propagated("transcribe", LoadEntryError(size, e)))
                            /\ UNCHANGED <<active_transcriptions, queue>>
       ELSE /\ TranscribeBegin(c, fail)
            /\ UNCHANGED <<model, model_size, model_load_time, is_loading,
                           running, shutdown, loads>>

\* The future of _load_model_sync is done and the loop resumes load_model:
\* install the model or raise ModelLoadFailed, then the finally.  When
\* transcribe_audio made the call and the load succeeded, the coroutine goes
\* on to its own work without yielding.
LoadResume(c, fail) ==
    LET f == futures[c]
        m == call[c].size
        ok == f.error = None
    IN  /\ pc[c] = "load_await"
        /\ f.state = "done"
        /\ ~LoopBlocked
        /\ model' = ModelAfterLoad(f)
        /\ model_size' = IF ok THEN m ELSE model_size
        /\ model_load_time' = IF ok THEN TimeOfLoad(f.value.id) ELSE model_load_time
        /\ is_loading' = LoadingAfterFinally(~ok)
        /\ IF ok /\ call[c].op = "transcribe"
           THEN TranscribeBegin(c, fail)
           ELSE /\ fail = "none"
                /\ Finish(c, call[c].op,
                          IF ok THEN LoadedResult(m)
                          ELSE Propagated(call[c].op, LoadFailedError(m, f.error)))
                /\ UNCHANGED <<active_transcriptions, queue>>
        /\ UNCHANGED <<running, shutdown, loads>>

\* The future of _transcribe_sync is done and the loop resumes
\* transcribe_audio: build the response or raise TranscriptionFailed, then the
\* finally.
TranscribeResume(c) ==
    LET f == futures[c]
    IN  /\ pc[c] = "transcribe_await"
        /\ f.state = "done"
        /\ ~LoopBlocked
        /\ active_transcriptions' = ActiveAfterFinally(active_transcriptions)
        /\ Finish(c, "transcribe", IF f.error = None
                     THEN TranscriptionResponse(f.value)
                     ELSE TranscriptionFailedError(f.error))
        /\ UNCHANGED <<model, model_size, model_load_time, is_loading,
                       queue, running, shutdown, loads>>

\* ------------------------------------------------------------------ cleanup
\* A cleanup that does not wait.
CleanupMustWait_Never == FALSE

\* "Wait for active transcriptions to complete"
CleanupMustWait == active_transcriptions > 0

\* One test of the while loop: sleep again, or call executor.shutdown(wait=True),
\* which blocks the loop's thread until the pool has run everything it holds.
CleanupLoop(c) ==
    /\ ~LoopBlocked
    /\ IF CleanupMustWait
       THEN /\ pc' = [pc EXCEPT ![c] = "cleanup_sleep"]
            /\ UNCHANGED shutdown
       ELSE /\ pc' = [pc EXCEPT ![c] = "cleanup_join"]
            /\ shutdown' = TRUE
    /\ UNCHANGED <<svc, queue, running, futures, call, outcome, loads>>

\* await cleanup(), called at shutdown.
Cleanup(c) ==
    /\ pc[c] = "idle"
    /\ CleanupLoop(c)

\* asyncio.sleep(1) is over.
CleanupWake(c) ==
    /\ pc[c] = "cleanup_sleep"
    /\ CleanupLoop(c)

\* A cleanup that shuts the executor down and leaves the model in place.
CleanupFinish_ShutdownOnly(c) ==
    /\ pc[c] = "cleanup_join"
    /\ queue = <<>>
    /\ running = {}
    /\ Finish(c, "cleanup", Outcome("cleaned", None, None, None, Zero, None, NoModel))
    /\ UNCHANGED <<model, model_size, model_load_time, is_loading,
                   active_transcriptions, queue, running, shutdown, loads>>

\* A cleanup that clears the model and keeps its size.
CleanupFinish_KeepsSize(c) ==
    /\ pc[c] = "cleanup_join"
    /\ queue = <<>>
    /\ running = {}
    /\ model' = NoModel
    /\ Finish(c, "cleanup", Outcome("cleaned", None, None, None, Zero, None, NoModel))
    /\ UNCHANGED <<model_size, model_load_time, is_loading, active_transcriptions,
                   queue, running, shutdown, loads>>

\* shutdown(wait=True) returns once the pool is empty; "Clear model from memory".
CleanupFinish(c) ==
    /\ pc[c] = "cleanup_join"
    /\ queue = <<>>
    /\ running = {}
    /\ model' = NoModel
    /\ model_size' = IF model # NoModel THEN None ELSE model_size
    /\ Finish(c, "cleanup", Outcome("cleaned", None, None, None, Zero, None, NoModel))
    /\ UNCHANGED <<model_load_time, is_loading, active_transcriptions,
                   queue, running, shutdown, loads>>

BeginFailures == {"none", "validate_audio_file", "preprocess_audio"}

\* The service called directly, as its unit tests and lifespan call it.
Next ==
    \/ \E c \in Callers, size \in SizeArgs : LoadModel(c, size) /\ UNCHANGED <<api, timers, registry, files, construction>>
    \/ \E c \in Callers, size \in SizeArgs, fail \in BeginFailures :
            TranscribeAudio(c, size, fail) /\ UNCHANGED <<api, timers, registry, files, construction>>
    \/ \E c \in Callers, fail \in BeginFailures : LoadResume(c, fail) /\ UNCHANGED <<api, timers, registry, files, construction>>
    \/ \E c \in Callers : TranscribeResume(c) /\ UNCHANGED <<api, timers, registry, files, construction>>
    \/ \E c \in Callers : Cleanup(c) /\ UNCHANGED <<api, timers, registry, files, construction>>
    \/ \E c \in Callers : CleanupWake(c) /\ UNCHANGED <<api, timers, registry, files, construction>>
    \/ \E c \in Callers : CleanupFinish(c) /\ UNCHANGED <<api, timers, registry, files, construction>>
    \/ WorkerStart /\ UNCHANGED <<api, timers, registry, files, construction>>
    \/ \E t \in running, ok \in BOOLEAN : WorkerFinish(t, ok) /\ UNCHANGED <<api, timers, registry, files, construction>>

Spec == Init /\ [][Next]_vars

\* ------------------------------------------------ the service under request load
\* The service as the application has started it: lifespan has awaited
\* load_model() for the configured size, and that load was the first one.
Started ==
    /\ model = ModelObject(settings_model_size, 1)
    /\ model_size = settings_model_size
    /\ model_load_time = TimeOfLoad(1)
    /\ is_loading = FALSE
    /\ active_transcriptions = 0
    /\ queue = <<>>
    /\ running = {}
    /\ shutdown = FALSE
    /\ futures = [c \in Requests |-> NoFuture]
    /\ pc = [c \in Requests |-> "idle"]
    /\ call = [c \in Requests |-> NoCall]
    /\ outcome = NoOutcome
    /\ loads = 1
    /\ handler = [c \in Requests |-> "none"]
    /\ temp_files = {}
    /\ response = NoResponse
    /\ overdue = {}
    /\ NoRegistry
    /\ processed = {}
    /\ Constructed

\* Requests that transcribe with the loaded model (no model_size argument),
\* and the pool that serves them.
Serve ==
    \/ \E c \in Requests, fail \in BeginFailures :
            TranscribeAudio(c, None, fail) /\ UNCHANGED <<api, timers, registry, files, construction>>
    \/ \E c \in Requests : TranscribeResume(c) /\ UNCHANGED <<api, timers, registry, files, construction>>
    \/ WorkerStart /\ UNCHANGED <<api, timers, registry, files, construction>>
    \/ \E t \in running, ok \in BOOLEAN : WorkerFinish(t, ok) /\ UNCHANGED <<api, timers, registry, files, construction>>

PoolSpec == Started /\ [][Serve]_vars

\* Scheduling: a pool thread that is free takes the oldest work item; every
\* model call returns or raises; the event loop resumes a coroutine whose
\* future is done.
PoolFairness ==
    /\ WF_vars(WorkerStart /\ UNCHANGED <<api, timers, registry, files, construction>>)
    /\ \A c \in Requests :
            WF_vars(\E t \in running, ok \in BOOLEAN :
                        t.caller = c /\ WorkerFinish(t, ok) /\ UNCHANGED <<api, timers, registry, files, construction>>)
    /\ \A c \in Requests : WF_vars(TranscribeResume(c) /\ UNCHANGED <<api, timers, registry, files, construction>>)

FairPoolSpec == Started /\ [][Serve]_vars /\ PoolFairness

\* ------------------------------------------------- transcriptions and time
\* request_timeout_seconds have passed since the start_time of the
\* transcription of caller c, which is still awaiting its pool task.  No code
\* of the service runs at that moment: it holds no timer.
TimeoutElapses(c) ==
    /\ pc[c] = "transcribe_await"
    /\ c \notin overdue
    /\ overdue' = overdue \cup {c}
    /\ UNCHANGED <<svc, pool, futures, pc, call, outcome, loads, api, registry,
                   files, construction>>

\* The started service serving transcriptions, with the passing of time observed.
TimedServe ==
    \/ \E c \in Callers, fail \in BeginFailures :
            TranscribeAudio(c, None, fail) /\ UNCHANGED <<api, timers, registry, files, construction>>
    \/ \E c \in Callers :
            TranscribeResume(c) /\ overdue' = overdue \ {c} /\ UNCHANGED <<api, registry, files, construction>>
    \/ \E c \in Callers : TimeoutElapses(c)
    \/ WorkerStart /\ UNCHANGED <<api, timers, registry, files, construction>>
    \/ \E t \in running, ok \in BOOLEAN : WorkerFinish(t, ok) /\ UNCHANGED <<api, timers, registry, files, construction>>

TimedSpec == Started /\ [][TimedServe]_vars

\* ------------------------------------------- transcriptions that name a size
\* The model_size argument of the transcriptions below.
RequestedSize == "tiny"

\* The service called by transcriptions that all ask for RequestedSize, and
\* by requests that load a model of any size.
SwapNext ==
    \/ \E c \in Callers, size \in SizeArgs :
            LoadModel(c, size) /\ UNCHANGED <<api, timers, registry, files, construction>>
    \/ \E c \in Callers, fail \in BeginFailures :
            TranscribeAudio(c, RequestedSize, fail) /\ UNCHANGED <<api, timers, registry, files, construction>>
    \/ \E c \in Callers, fail \in BeginFailures :
            LoadResume(c, fail) /\ UNCHANGED <<api, timers, registry, files, construction>>
    \/ \E c \in Callers : TranscribeResume(c) /\ UNCHANGED <<api, timers, registry, files, construction>>
    \/ WorkerStart /\ UNCHANGED <<api, timers, registry, files, construction>>
    \/ \E t \in running, ok \in BOOLEAN :
            WorkerFinish(t, ok) /\ UNCHANGED <<api, timers, registry, files, construction>>

SwapSpec == Init /\ [][SwapNext]_vars

\* ------------------------------------------------ loads in a saturated pool
\* The started service serving transcriptions with the loaded model and
\* requests that load a model, all through the one executor.
\* Enough requests transcribe to occupy every thread of the pool; the other
\* requests load models.
Transcribers == 1..max_concurrent_transcriptions
Loaders == Requests \ Transcribers

LoadServe ==
    \/ \E c \in Transcribers :
            TranscribeAudio(c, None, "none") /\ UNCHANGED <<api, timers, registry, files, construction>>
    \/ \E c \in Loaders, size \in ModelSizes :
            LoadModel(c, size) /\ UNCHANGED <<api, timers, registry, files, construction>>
    \/ \E c \in Requests : LoadResume(c, "none") /\ UNCHANGED <<api, timers, registry, files, construction>>
    \/ \E c \in Requests : TranscribeResume(c) /\ UNCHANGED <<api, timers, registry, files, construction>>
    \/ WorkerStart /\ UNCHANGED <<api, timers, registry, files, construction>>
    \/ \E t \in running, ok \in BOOLEAN :
            WorkerFinish(t, ok) /\ UNCHANGED <<api, timers, registry, files, construction>>

\* Scheduling as in PoolFairness, and the loop resumes a load_model whose
\* future is done.
LoadFairness ==
    /\ PoolFairness
    /\ \A c \in Requests :
            WF_vars(LoadResume(c, "none") /\ UNCHANGED <<api, timers, registry, files, construction>>)

LoadPoolSpec == Started /\ [][LoadServe]_vars /\ LoadFairness

\* ------------------------------------------------------- the HTTP endpoints
\* What a POST /transcribe upload looks like to the checks of the handler.
Uploads == {"ok", "no_filename", "too_large"}

\* POST /transcribe: the service call returned, or raised; every exception that
\* is not an HTTPException is answered by "except Exception: raise
\* HTTPException(status_code=500, ...)".
TranscribeEndpointStatus(o) == IF o.kind = "TranscriptionResponse" THEN 200 ELSE 500

\* POST /model/load/{model_size}: the same two except clauses.
LoadEndpointStatus(o) == IF o.kind = "LoadResult" THEN 200 ELSE 500

EndpointStatus(endpoint, o) ==
    IF endpoint = "transcribe" THEN TranscribeEndpointStatus(o) ELSE LoadEndpointStatus(o)

\* The handler of caller c after a step of its service call: still awaiting
\* it, or past it: the finally unlinks the temporary file and the response is
\* sent.
EndpointReturns(c, endpoint) ==
    IF pc'[c] = "idle"
    THEN /\ handler' = [handler EXCEPT ![c] = "none"]
         /\ temp_files' = temp_files \ {c}
         /\ response' = Response(endpoint, EndpointStatus(endpoint, outcome'))
    ELSE /\ handler' = [handler EXCEPT ![c] = endpoint]
         /\ UNCHANGED <<temp_files, response>>

\* The finally around the pool call of transcribe_audio: "if processed_file
\* and settings.cleanup_temp_files: cleanup_temp_file(processed_file)".
ProcessedAfterFinally_SuccessOnly(on_disk, c, raised) ==
    IF cleanup_temp_files /\ ~raised THEN on_disk \ {c} ELSE on_disk

ProcessedAfterFinally(on_disk, c, raised) ==
    IF cleanup_temp_files THEN on_disk \ {c} ELSE on_disk

\* The preprocessed file of caller c after a step of its transcribe_audio:
\* preprocess_audio has produced it when the call awaits the pool, and the
\* finally has run when the call has ended.
TrackProcessed(c) ==
    processed' =
        IF pc'[c] = "transcribe_await" THEN processed \cup {c}
        ELSE IF c \in processed
        THEN ProcessedAfterFinally(processed, c, outcome'.kind # "TranscriptionResponse")
        ELSE processed

\* POST /transcribe up to "content = await file.read()": the filename and size
\* checks, then the temporary file.
PostTranscribe(c, upload) ==
    /\ pc[c] = "idle"
    /\ handler[c] = "none"
    /\ CASE upload = "no_filename" ->
                /\ response' = Response("transcribe", 400)
                /\ UNCHANGED <<handler, temp_files>>
         [] upload = "too_large" ->
                /\ response' = Response("transcribe", 413)
                /\ UNCHANGED <<handler, temp_files>>
         [] OTHER ->
                /\ handler' = [handler EXCEPT ![c] = "read_upload"]
                /\ temp_files' = temp_files \cup {c}
                /\ UNCHANGED response
    /\ UNCHANGED <<svc, pool, futures, pc, call, outcome, loads>>

\* POST /transcribe from the written temporary file on: the handler calls
\* whisper_service.transcribe_audio.
PostTranscribeCall(c, size, fail) ==
    /\ handler[c] = "read_upload"
    /\ TranscribeAudio(c, size, fail)
    /\ EndpointReturns(c, "transcribe")

\* POST /model/load/{model_size}: the size check, then whisper_service.load_model.
PostModelLoad(c, size) ==
    /\ pc[c] = "idle"
    /\ handler[c] = "none"
    /\ IF size = InvalidSize
       THEN /\ response' = Response("model_load", 400)
            /\ UNCHANGED <<svc, pool, futures, pc, call, outcome, loads,
                           handler, temp_files>>
       ELSE /\ LoadModel(c, size)
            /\ EndpointReturns(c, "model_load")

\* The application serving requests: the two POST endpoints, the coroutines
\* they suspended, and the pool.
ApiNext ==
    \/ \E c \in Callers, upload \in Uploads :
            PostTranscribe(c, upload) /\ TrackProcessed(c)
            /\ UNCHANGED <<timers, registry, construction>>
    \/ \E c \in Callers, size \in SizeArgs, fail \in BeginFailures :
            PostTranscribeCall(c, size, fail) /\ TrackProcessed(c)
            /\ UNCHANGED <<timers, registry, construction>>
    \/ \E c \in Callers, size \in ModelSizes \cup {InvalidSize} :
            PostModelLoad(c, size) /\ TrackProcessed(c)
            /\ UNCHANGED <<timers, registry, construction>>
    \/ \E c \in Callers, fail \in BeginFailures :
            LoadResume(c, fail) /\ EndpointReturns(c, handler[c]) /\ TrackProcessed(c)
            /\ UNCHANGED <<timers, registry, construction>>
    \/ \E c \in Callers :
            TranscribeResume(c) /\ EndpointReturns(c, handler[c]) /\ TrackProcessed(c)
            /\ UNCHANGED <<timers, registry, construction>>
    \/ WorkerStart /\ UNCHANGED <<api, timers, registry, files, construction>>
    \/ \E t \in running, ok \in BOOLEAN : WorkerFinish(t, ok) /\ UNCHANGED <<api, timers, registry, files, construction>>

ApiSpec == Init /\ [][ApiNext]_vars

\* ------------------------------------------------------------------- the Job
JobStatus == {"PENDING", "PROCESSING", "COMPLETED", "FAILED"}
ProgressInputs == {-10, 0, 25, 50, 100, 150}
Messages == {None, "Processing..."}
Results == {"text"}
Errors == {"boom", "timed out"}

\* Everything but the registry.
service == <<svc, pool, futures, pc, call, outcome, loads, api, timers,
            files, construction>>

\* An update_progress that stores the value as given.
Clamp_Unclamped(v) == v

\* progress is clamped into [0, 100] before it is stored.
Clamp(v) == IF v < 0 THEN 0 ELSE IF v > 100 THEN 100 ELSE v

\* Job.update_progress(progress, message=None)
update_progress(job, v, msg) ==
    [job EXCEPT !.progress = Clamp(v),
                !.message = IF msg # None THEN msg ELSE @]

\* Job.set_status(status, message=None)
set_status(job, status, msg) ==
    [job EXCEPT !.status = status,
                !.message = IF msg # None THEN msg ELSE @]

\* A set_result that completes the job and leaves progress where it was.
set_result_KeepsProgress(job, r) ==
    [job EXCEPT !.status = "COMPLETED", !.result = r]

\* Job.set_result(result)
set_result(job, r) ==
    [job EXCEPT !.status = "COMPLETED", !.progress = 100, !.result = r]

\* A set_error that records the error and leaves the message as it was.
set_error_KeepsMessage(job, e) ==
    [job EXCEPT !.status = "FAILED", !.error = e]

\* Job.set_error(error)
set_error(job, e) ==
    [job EXCEPT !.status = "FAILED", !.error = e, !.message = e]

\* An operation on the job registered under id replaces it by job.
JobBecomes(id, job) ==
    /\ id \in DOMAIN jobs
    /\ jobs' = [jobs EXCEPT ![id] = job]
    /\ UNCHANGED <<next_job, creating, issued, removed, now, service>>

UpdateProgress(id, v, msg) == JobBecomes(id, update_progress(jobs[id], v, msg))
SetStatus(id, status, msg) == JobBecomes(id, set_status(jobs[id], status, msg))
SetResult(id, r) == JobBecomes(id, set_result(jobs[id], r))
SetError(id, e) == JobBecomes(id, set_error(jobs[id], e))

\* ---------------------------------------------------------- the JobManager
FreshId_CountOfJobs == Cardinality(DOMAIN jobs) + 1

FreshId_LowestFree ==
    CHOOSE i \in 1..(MaxJobs + 1) :
        /\ i \notin DOMAIN jobs
        /\ \A c \in Callers : creating[c].id # i
        /\ \A j \in 1..(i - 1) :
                j \in DOMAIN jobs \/ \E c \in Callers : creating[c].id = j

\* The id create_job generates: one that was never generated before.
FreshId == next_job + 1

\* create_job, first half: generate the id, construct the Job (created_at).
CreateJobBegin(c) ==
    /\ creating[c] = NoCreation
    /\ next_job < MaxJobs
    /\ next_job' = next_job + 1
    /\ creating' = [creating EXCEPT ![c] = Creation(FreshId, now)]
    /\ UNCHANGED <<jobs, issued, removed, now, service>>

\* create_job, second half: self._jobs[job_id] = job, return job.
CreateJobRegister(c) ==
    LET id == creating[c].id IN
    /\ id # 0
    /\ jobs' = [i \in DOMAIN jobs \cup {id} |->
                    IF i = id THEN NewJob(creating[c].at) ELSE jobs[i]]
    /\ issued' = Append(issued, id)
    /\ creating' = [creating EXCEPT ![c] = NoCreation]
    /\ UNCHANGED <<next_job, removed, now, service>>

\* One Job object and every sequence of its operations.
JobNext ==
    \/ \E c \in Callers : next_job = 0 /\ CreateJobBegin(c)
    \/ \E c \in Callers : CreateJobRegister(c)
    \/ \E id \in DOMAIN jobs, v \in ProgressInputs, msg \in Messages :
            UpdateProgress(id, v, msg)
    \/ \E id \in DOMAIN jobs, status \in JobStatus, msg \in Messages :
            SetStatus(id, status, msg)
    \/ \E id \in DOMAIN jobs, r \in Results : SetResult(id, r)
    \/ \E id \in DOMAIN jobs, e \in Errors : SetError(id, e)

JobSpec == Init /\ [][JobNext]_vars

\* get_job: the Job registered under the id, None when there is none.
get_job(js, id) == IF id \in DOMAIN js THEN js[id] ELSE None

WithoutJob_AbsentClears(js, id) ==
    IF id \in DOMAIN js THEN [i \in DOMAIN js \ {id} |-> js[i]] ELSE NoJobs

\* The registry without the job of that id: the same registry when the id
\* is absent.
WithoutJob(js, id) == [i \in DOMAIN js \ {id} |-> js[i]]

\* delete_job: removes the job; nothing happens when the id is absent.
DeleteJob(id) ==
    /\ jobs' = WithoutJob(jobs, id)
    /\ removed' = removed \cup ({id} \cap DOMAIN jobs)
    /\ UNCHANGED <<next_job, creating, issued, now, service>>

\* The max_age_seconds arguments of cleanup_old_jobs.
MaxAges == {0, 1}

Old_SparesUnfinished(js, t, max_age) ==
    {id \in DOMAIN js : /\ js[id].created_at < t - max_age
                        /\ js[id].status \in {"COMPLETED", "FAILED"}}

\* The jobs cleanup_old_jobs reaps at time t: created before t - max_age.
Old(js, t, max_age) == {id \in DOMAIN js : js[id].created_at < t - max_age}

\* cleanup_old_jobs(max_age_seconds)
CleanupOldJobs(max_age) ==
    /\ jobs' = [i \in DOMAIN jobs \ Old(jobs, now, max_age) |-> jobs[i]]
    /\ removed' = removed \cup Old(jobs, now, max_age)
    /\ UNCHANGED <<next_job, creating, issued, now, service>>

\* Time passes.
Tick ==
    /\ now < MaxTime
    /\ now' = now + 1
    /\ UNCHANGED <<jobs, next_job, creating, issued, removed, service>>

\* The registry under interleaved callers: creation in two steps, status
\* changes of the registered jobs, deletion, reaping, the clock.
RegistryNext ==
    \/ \E c \in Callers : CreateJobBegin(c)
    \/ \E c \in Callers : CreateJobRegister(c)
    \/ \E id \in DOMAIN jobs, status \in JobStatus : SetStatus(id, status, None)
    \/ \E id \in 1..MaxJobs : DeleteJob(id)
    \/ \E max_age \in MaxAges : CleanupOldJobs(max_age)
    \/ Tick

RegistrySpec == Init /\ [][RegistryNext]_vars

\* ------------------------------------------ WhisperService() from threads
\* Everything a thread inside WhisperService() leaves alone but the fields
\* and the executor that __init__ assigns.
beyond == <<futures, pc, call, outcome, loads, api, timers, registry, files>>

\* __new__: "if cls._instance is None:"
NewCheck(t) ==
    /\ thread[t].at = "start"
    /\ thread' = [thread EXCEPT ![t] =
            IF instance = 0 THEN Thread("new_lock", 0) ELSE Thread("init_check", instance)]
    /\ UNCHANGED <<instance, lock, initialized, executors, svc, pool, beyond>>

\* __new__: "with cls._lock:"
NewAcquire(t) ==
    /\ thread[t].at = "new_lock"
    /\ lock = 0
    /\ lock' = t
    /\ thread' = [thread EXCEPT ![t] = Thread("new_locked", 0)]
    /\ UNCHANGED <<instance, initialized, executors, svc, pool, beyond>>

\* __new__, holding the lock: "if cls._instance is None: cls._instance =
\* super().__new__(cls)", the lock released, "return cls._instance".
NewCreate(t) ==
    /\ thread[t].at = "new_locked"
    /\ lock = t
    /\ instance' = (IF instance = 0 THEN 1 ELSE instance)
    /\ lock' = 0
    /\ thread' = [thread EXCEPT ![t] =
            Thread("init_check", IF instance = 0 THEN 1 ELSE instance)]
    /\ UNCHANGED <<initialized, executors, svc, pool, beyond>>

\* __init__: "if hasattr(self, '_initialized'): return"
InitCheck(t) ==
    /\ thread[t].at = "init_check"
    /\ thread' = [thread EXCEPT ![t] =
            Thread(IF initialized THEN "done" ELSE "init_set", thread[t].self)]
    /\ UNCHANGED <<instance, lock, initialized, executors, svc, pool, beyond>>

\* __init__: "self._initialized = True"
InitSet(t) ==
    /\ thread[t].at = "init_set"
    /\ initialized' = TRUE
    /\ thread' = [thread EXCEPT ![t] = Thread("init_fields", thread[t].self)]
    /\ UNCHANGED <<instance, lock, executors, svc, pool, beyond>>

\* __init__: the assignments of the fields and "self._executor =
\* ThreadPoolExecutor(max_workers=...)".
InitFields(t) ==
    /\ thread[t].at = "init_fields"
    /\ model' = NoModel
    /\ model_size' = None
    /\ model_load_time' = NoTime
    /\ is_loading' = FALSE
    /\ active_transcriptions' = 0
    /\ queue' = <<>>
    /\ running' = {}
    /\ shutdown' = FALSE
    /\ executors' = executors + 1
    /\ thread' = [thread EXCEPT ![t] = Thread("done", thread[t].self)]
    /\ UNCHANGED <<instance, lock, initialized, beyond>>

\* A thread that holds the constructed service lets it count a transcription:
\* "self._active_transcriptions += 1".
UseService(t) ==
    /\ thread[t].at = "done"
    /\ active_transcriptions < Cardinality(Threads)
    /\ active_transcriptions' = active_transcriptions + 1
    /\ UNCHANGED <<model, model_size, model_load_time, is_loading, pool,
                   construction, beyond>>

\* Threads that construct WhisperService concurrently and then use it.
ConstructNext ==
    \/ \E t \in Threads : NewCheck(t)
    \/ \E t \in Threads : NewAcquire(t)
    \/ \E t \in Threads : NewCreate(t)
    \/ \E t \in Threads : InitCheck(t)
    \/ \E t \in Threads : InitSet(t)
    \/ \E t \in Threads : InitFields(t)
    \/ \E t \in Threads : UseService(t)

\* The class is defined and no thread has called WhisperService() yet.
ConstructInit == NoActivity /\ Unconstructed

ConstructSpec == ConstructInit /\ [][ConstructNext]_vars

\* The caller of create_job holds the registered Job object itself and
\* assigns to its created_at: old_job.created_at = <a time in the past>.
\* cleanup_old_jobs then reaps the job by the assigned time.
HandleAssign(id, t) ==
    /\ id \in DOMAIN jobs
    /\ jobs[id].created_at # t
    /\ jobs' = [jobs EXCEPT ![id].created_at = t]
    /\ UNCHANGED <<next_job, creating, issued, removed, now, service>>

\* The registry and the callers that keep what create_job returned.
HandleNext ==
    \/ \E c \in Callers : CreateJobBegin(c)
    \/ \E c \in Callers : CreateJobRegister(c)
    \/ \E id \in DOMAIN jobs, t \in 0..MaxTime : HandleAssign(id, t)
    \/ \E max_age \in MaxAges : CleanupOldJobs(max_age)
    \/ Tick

HandleSpec == Init /\ [][HandleNext]_vars

\* ------------------------------------------------------------------ claims
QueuedLoads == {i \in 1..Len(queue) : queue[i].kind = "load"}
RunningLoads == {t \in running : t.kind = "load"}
LoadingCallers == {c \in Callers : pc[c] = "load_await"}

\* C1: model loads are mutually exclusive: over all interleavings of
\* load_model calls and of transcribe_audio calls that trigger a load, at most
\* one _load_model_sync task is submitted or running, and at most one
\* coroutine is inside a load.
C1_LoadsMutuallyExclusive ==
    /\ Cardinality(QueuedLoads) + Cardinality(RunningLoads) <= 1
    /\ Cardinality(LoadingCallers) <= 1

\* A load triggered by transcribe_audio is in the pool while a second request's
\* load_model has just been turned away.
C1_Witness ==
    /\ Cardinality(QueuedLoads) + Cardinality(RunningLoads) = 1
    /\ \E c \in LoadingCallers : call[c].op = "transcribe" /\ outcome.caller # c
    /\ outcome.op = "load"
    /\ outcome.message = "Model is already being loaded"

\* C2: the is-loading flag is set exactly while some load_model call that
\* acquired it has not finished: once that call has returned or raised, the
\* flag is false, so no later call is rejected for a load that has ended.
C2_LoadingReleasedWhenLoadEnds ==
    is_loading <=> LoadingCallers # {}

\* A load has just failed in the loader and the flag is down again.
C2_Witness ==
    /\ outcome.kind = "ModelLoadFailed"
    /\ outcome.original_error = "LoaderError"
    /\ ~is_loading
    /\ LoadingCallers = {}

\* A step in which caller c's load_model resumes on a loader that raised.
LoaderRaised(c) ==
    /\ pc[c] = "load_await"
    /\ futures[c].state = "done"
    /\ futures[c].error # None
    /\ pc'[c] # "load_await"

\* C3: when the loader raises, the caller of load_model receives
\* ModelLoadFailed with the model size and the cause, and the current model,
\* its size and its load timestamp are what they were (none stays none).
C3_FailedLoadKeepsModel ==
    [][\A c \in Callers :
        LoaderRaised(c) =>
            /\ UNCHANGED <<model, model_size, model_load_time>>
            /\ call[c].op = "load" =>
                    /\ outcome'.caller = c
                    /\ outcome'.kind = "ModelLoadFailed"
                    /\ outcome'.model_size = call[c].size
                    /\ outcome'.original_error = futures[c].error]_vars

\* A swap to another size has just failed and the earlier model is current.
C3_Witness ==
    /\ outcome.op = "load"
    /\ outcome.kind = "ModelLoadFailed"
    /\ outcome.original_error = "LoaderError"
    /\ model # NoModel
    /\ model.size = model_size
    /\ outcome.model_size # model_size

\* C4 (as claimed): a load_model call made while another load is in progress
\* fails with the error kind ModelLoadInProgress, distinct from ModelLoadFailed.
C4_RejectionIsModelLoadInProgress ==
    outcome.message = "Model is already being loaded" =>
        outcome.kind = "ModelLoadInProgress"

\* A step in which caller c's load_model(size), called directly or by
\* transcribe_audio, meets a load in progress.
RejectedLoad(c, size) ==
    /\ is_loading
    /\ pc[c] = "idle"
    /\ pc'[c] = "idle"
    /\ \/ LoadModel(c, size)
       \/ /\ model # NoModel
          /\ size # None
          /\ size # model_size
          /\ \E fail \in BeginFailures : TranscribeAudio(c, size, fail)

\* C5: a load_model call rejected because a load is in progress changes
\* nothing: model, size, timestamp, counter and pool stay as they were and the
\* flag of the running load stays true.
C5_RejectedLoadChangesNothing ==
    [][\A c \in Callers, size \in SizeArgs :
        RejectedLoad(c, size) =>
            /\ outcome'.caller = c
            /\ outcome'.message = "Model is already being loaded"
            /\ is_loading'
            /\ UNCHANGED <<svc, pool, loads>>
            /\ \A d \in Callers \ {c} :
                    pc'[d] = pc[d] /\ futures'[d] = futures[d]]_vars

\* A call has just been rejected while the load it met is still running on top
\* of an earlier model.
C5_Witness ==
    /\ outcome.message = "Model is already being loaded"
    /\ is_loading
    /\ model # NoModel
    /\ \E c \in LoadingCallers : outcome.caller # c

\* C6: load_model(m) with a model of size m current and no load in progress
\* returns success with load time 0; the loader is not invoked, the flag is
\* not set, and the model and its timestamp are not replaced.
C6_AlreadyLoadedIsFree ==
    [][\A c \in Callers, size \in SizeArgs :
        ( /\ model # NoModel
          /\ model_size = Resolve(size)
          /\ ~is_loading
          /\ pc[c] = "idle"
          /\ pc'[c] = "idle"
          /\ LoadModel(c, size) ) =>
            /\ outcome'.caller = c
            /\ outcome'.kind = "LoadResult"
            /\ outcome'.model_size = Resolve(size)
            /\ outcome'.load_time_seconds = Zero
            /\ pc'[c] = "idle"
            /\ ~is_loading'
            /\ UNCHANGED <<svc, pool, loads>>]_vars

\* The cached answer has been given for the model that a swap installed.
C6_Witness ==
    /\ outcome.kind = "LoadResult"
    /\ outcome.message = "already loaded"
    /\ outcome.load_time_seconds = Zero
    /\ model.size = outcome.model_size
    /\ model_load_time = TimeOfLoad(model.id)
    /\ model.id > 1
    /\ queue = <<>> /\ running = {}

\* C7: transcribe_audio with no model loaded fails with ModelNotLoaded for
\* every requested size and leaves the state as it was: the counter is not
\* incremented, no load is triggered, nothing is submitted to the pool.
C7_NoModelRejectsTranscription ==
    [][\A c \in Callers, size \in SizeArgs, fail \in BeginFailures :
        ( /\ model = NoModel
          /\ pc[c] = "idle"
          /\ TranscribeAudio(c, size, fail) ) =>
            /\ outcome'.caller = c
            /\ outcome'.kind = "ModelNotLoaded"
            /\ pc'[c] = "idle"
            /\ UNCHANGED <<svc, pool, loads>>]_vars

\* ModelNotLoaded has been raised and nothing is in progress.
C7_Witness ==
    /\ outcome.op = "transcribe"
    /\ outcome.kind = "ModelNotLoaded"
    /\ model = NoModel
    /\ active_transcriptions = 0
    /\ ~is_loading
    /\ queue = <<>> /\ running = {}

TranscribingCallers == {c \in Callers : pc[c] = "transcribe_await"}
PoolTasks == {queue[i] : i \in 1..Len(queue)} \cup running

\* A step in which transcribe_audio(size) of caller c, asking for a size other
\* than the current one, is thrown out by its load_model call: at once, by a
\* load in progress, or later, by the loader.
LoadFailsInTranscribe(c) ==
    \/ /\ LoaderRaised(c)
       /\ call[c].op = "transcribe"
    \/ /\ pc[c] = "idle"
       /\ pc'[c] = "idle"
       /\ model # NoModel
       /\ is_loading
       /\ \E size \in ModelSizes, fail \in BeginFailures :
            size # model_size /\ TranscribeAudio(c, size, fail)

\* C8: transcribe_audio with a requested size other than the current one calls
\* load_model before any transcription work (while it awaits the load it is
\* not counted and has no transcription task in the pool); when that load
\* fails, by the loader or by a load in progress, the caller gets the
\* ModelLoadFailed of load_model, not TranscriptionFailed, and the counter is
\* untouched.
C8_LoadErrorPropagatesUnwrapped ==
    /\ [](\A c \in LoadingCallers :
            /\ \A t \in PoolTasks : t.caller = c => t.kind = "load"
            /\ active_transcriptions <= Cardinality(Callers \ {c}))
    /\ [][\A c \in Callers :
            LoadFailsInTranscribe(c) =>
                /\ outcome'.caller = c
                /\ outcome'.op = "transcribe"
                /\ outcome'.kind = "ModelLoadFailed"
                /\ UNCHANGED active_transcriptions]_vars

\* transcribe_audio has just been thrown out by the loader, with the earlier
\* model still current.
C8_Witness ==
    /\ outcome.op = "transcribe"
    /\ outcome.kind = "ModelLoadFailed"
    /\ outcome.original_error = "LoaderError"
    /\ outcome.model_size # model_size
    /\ model # NoModel

\* C9: the counter equals the number of transcribe_audio calls that have
\* started their work and not finished it: one increment at the start, one
\* decrement at the end whatever the outcome; never negative, and 0 when no
\* transcription is in flight.
C9_CounterCountsTranscriptionsInFlight ==
    /\ active_transcriptions = Cardinality(TranscribingCallers)
    /\ active_transcriptions >= 0

\* One transcription has just failed in the model call while another is still
\* in flight.
C9_Witness ==
    /\ outcome.kind = "TranscriptionFailed"
    /\ outcome.original_error = "ModelError"
    /\ active_transcriptions = 1
    /\ Cardinality(TranscribingCallers) = 1

\* C10: cleanup shuts the executor down and clears the model only with the
\* counter at 0: neither happens in a step taken with the counter above 0,
\* and the counter is 0 for as long as cleanup is inside shutdown().
C10_CleanupWaitsForTranscriptions ==
    /\ [](LoopBlocked => active_transcriptions = 0)
    /\ [][((~shutdown /\ shutdown') \/ (model # NoModel /\ model' = NoModel)) =>
            (active_transcriptions = 0 /\ active_transcriptions' = 0)]_vars

\* cleanup is under way while a transcription is in flight: it sleeps, the
\* executor is not shut down and the model is still loaded.
C10_Witness ==
    /\ \E c \in Callers : pc[c] = "cleanup_sleep"
    /\ active_transcriptions > 0
    /\ running # {}
    /\ ~shutdown
    /\ model # NoModel

\* ------------------------------------------------------------ the worker pool
QueuedTasks == {queue[i] : i \in 1..Len(queue)}
\* Transcriptions submitted to the pool whose future is not yet completed.
SubmittedRequests ==
    {c \in DOMAIN pc : pc[c] = "transcribe_await" /\ futures[c].state = "pending"}

\* C11: at every instant at most max_concurrent_transcriptions tasks execute in
\* the worker pool, however many transcriptions were submitted; every submitted
\* task that is not executing waits in the queue of the pool.
C11_PoolBoundsExecution ==
    /\ Cardinality(running) <= max_concurrent_transcriptions
    /\ \A c \in SubmittedRequests :
            (\E t \in running : t.caller = c) \/ (\E t \in QueuedTasks : t.caller = c)
    /\ Cardinality(SubmittedRequests) > max_concurrent_transcriptions =>
            Len(queue) >= Cardinality(SubmittedRequests) - max_concurrent_transcriptions

\* More transcriptions are submitted than the pool has threads: every thread
\* runs one and the excess is queued.
C11_Witness ==
    /\ Cardinality(running) = max_concurrent_transcriptions
    /\ Cardinality(SubmittedRequests) > max_concurrent_transcriptions
    /\ queue # <<>>
    /\ \A t \in running \cup QueuedTasks : t.kind = "transcribe"

\* C12: every transcription that was started reaches a terminal outcome, a
\* response or a TranscriptionFailed, when model calls terminate and the pool
\* and the loop are scheduled fairly: no task stays queued forever and no
\* failure inside a pool task leaves its transcription awaiting forever.
C12_StartedTranscriptionEnds ==
    \A c \in Requests :
        (pc[c] = "transcribe_await") ~>
            (/\ pc[c] = "idle"
             /\ outcome.caller = c
             /\ outcome.kind \in {"TranscriptionResponse", "TranscriptionFailed"})

\* A transcription waits in the queue behind a full pool, and the latest call
\* to end was a transcription whose model call failed inside its pool task.
C12_Witness ==
    /\ Cardinality(running) = max_concurrent_transcriptions
    /\ \E t \in QueuedTasks : t.kind = "transcribe" /\ pc[t.caller] = "transcribe_await"
    /\ outcome.kind = "TranscriptionFailed"
    /\ outcome.original_error = "ModelError"

\* --------------------------------------------------------------- model swap
\* Pool tasks inside self._model.transcribe(...), with the model they called.
ExecutingTranscriptions == {t \in running : t.kind = "transcribe" /\ t.uses # NoModel}

\* C13: a model swap does not invalidate the model of a transcription task
\* that is executing: in every step the task either goes on with the model it
\* began with or completes its call on that same model (a result of that
\* model, or the error the model raised), whatever load_model installs
\* meanwhile; and cleanup drops the model only when no transcription task is
\* in the pool.
C13_SwapKeepsModelOfRunningTask ==
    [][/\ \A t \in ExecutingTranscriptions :
             \/ t \in running'
             \/ futures'[t.caller] \in
                    {DoneFuture(t.uses, None), DoneFuture(NoModel, "ModelError")}
       /\ (model # NoModel /\ model' = NoModel) =>
             /\ ExecutingTranscriptions = {}
             /\ \A i \in 1..Len(queue) : queue[i].kind # "transcribe"]_vars

\* A transcription has answered with the work of the model it began on, after
\* load_model installed a model of another size while its task was executing.
C13_Witness ==
    /\ outcome.kind = "TranscriptionResponse"
    /\ outcome.ran_on # NoModel
    /\ outcome.model_used # outcome.ran_on.size
    /\ model # NoModel
    /\ outcome.ran_on.id # model.id

\* ------------------------------------------------- failures of a transcription
\* transcribe_audio of caller c gets past the model check and the optional load
\* in this step, and the named step (validation or preprocessing) raises.
RaisesAtStart(c, fail) ==
    \/ /\ pc[c] = "idle"
       /\ model # NoModel
       /\ \E size \in {None, model_size} : TranscribeAudio(c, size, fail)
    \/ /\ pc[c] = "load_await"
       /\ call[c].op = "transcribe"
       /\ futures[c].error = None
       /\ LoadResume(c, fail)

\* C14: once the model is loaded and the transcription has started, an
\* exception raised by audio validation, by preprocessing or by the model call
\* reaches the caller of transcribe_audio as TranscriptionFailed with that
\* exception as original_error, and as nothing else.
C14_FailuresBecomeTranscriptionFailed ==
    [][\A c \in Callers :
        /\ \A fail \in BeginFailures \ {"none"} :
              (pc'[c] = "idle" /\ RaisesAtStart(c, fail)) =>
                  /\ outcome'.caller = c
                  /\ outcome'.op = "transcribe"
                  /\ outcome'.kind = "TranscriptionFailed"
                  /\ outcome'.original_error = fail
        /\ (pc[c] = "transcribe_await" /\ pc'[c] = "idle" /\ futures[c].error # None) =>
                  /\ outcome'.caller = c
                  /\ outcome'.op = "transcribe"
                  /\ outcome'.kind = "TranscriptionFailed"
                  /\ outcome'.original_error = futures[c].error]_vars

\* With a model loaded, a transcription has counted itself, failed in
\* preprocessing, and the caller holds TranscriptionFailed naming that step.
C14_Witness ==
    /\ outcome.op = "transcribe"
    /\ outcome.kind = "TranscriptionFailed"
    /\ outcome.original_error = "preprocess_audio"
    /\ pc[outcome.caller] = "idle"
    /\ model # NoModel
    /\ active_transcriptions = 0

C16_NoModelAnswers503 ==
    [][\A c \in Callers :
        (handler[c] = "read_upload" /\ model = NoModel /\ handler'[c] = "none") =>
            response' = Response("transcribe", 503)]_vars

\* C17, as stated: a POST /model/load/{model_size} request made while a model
\* load is in progress is answered with status 409.
C17_LoadDuringLoadAnswers409 ==
    [][\A c \in Callers :
        (/\ pc[c] = "idle"
         /\ handler[c] = "none"
         /\ is_loading
         /\ \E size \in ModelSizes : PostModelLoad(c, size)) =>
            response' = Response("model_load", 409)]_vars

\* ------------------------------------------------------- upload validation
\* The POST /transcribe request of caller c is refused for its size in this
\* step: status 413, no temporary file, no service call, counter untouched.
TooLargeRejectedEarly(c) ==
    (pc[c] = "idle" /\ handler[c] = "none" /\ PostTranscribe(c, "too_large")) =>
        /\ response' = Response("transcribe", 413)
        /\ temp_files' = temp_files
        /\ active_transcriptions' = active_transcriptions
        /\ UNCHANGED <<pc, call, outcome, queue>>

\* The upload of caller c fails validation in this step, and nothing was
\* allocated for the request: it has no temporary file.
InvalidRejectedEarly(c) ==
    (/\ handler[c] \in {"read_upload", "transcribe"}
     /\ pc'[c] = "idle"
     /\ RaisesAtStart(c, "validate_audio_file")) =>
        c \notin temp_files

\* C18, as stated: a POST /transcribe request whose file is too large is
\* rejected with 413 before a temporary file is created, the service called or
\* the counter changed, and an upload that fails format validation is
\* likewise rejected before any resource is allocated.
C18_ValidationRejectsBeforeAllocation ==
    [][\A c \in Callers : TooLargeRejectedEarly(c) /\ InvalidRejectedEarly(c)]_vars

\* The size half of C18 alone.
OversizeRejectedBeforeAllocation == [][\A c \in Callers : TooLargeRejectedEarly(c)]_vars

\* ------------------------------------------------------------------ timeout
\* C19, as stated: a transcription that exceeds the configured timeout is
\* abandoned and ends failed with a timeout cause: a transcription that is
\* overdue never ends otherwise.
C19_OverdueTranscriptionFailsWithTimeout ==
    [][\A c \in Callers :
        (c \in overdue /\ pc[c] = "transcribe_await" /\ pc'[c] = "idle") =>
            /\ outcome'.kind = "TranscriptionFailed"
            /\ outcome'.original_error = "TimeoutError"]_vars

\* ------------------------------------------------------------------ cleanup
\* C20: when cleanup returns no model is loaded, whatever was loaded when it
\* was called: is_model_loaded() is false and get_current_model_size() is None.
C20_CleanupLeavesNoModel ==
    [][\A c \in Callers :
        (pc[c] = "cleanup_join" /\ pc'[c] = "idle") =>
            /\ outcome'.caller = c
            /\ outcome'.kind = "cleaned"
            /\ model' = NoModel
            /\ model_size' = None]_vars

\* cleanup has just returned on a service that had loaded a model: the time of
\* that load is still recorded, the model and its size are gone.
C20_Witness ==
    /\ outcome.kind = "cleaned"
    /\ model_load_time # NoTime
    /\ model = NoModel
    /\ model_size = None
    /\ shutdown

\* ------------------------------------------------ transcriptions during a load
\* C21, as stated: while a model load is in progress a new transcription
\* request waits: the step in which it enters transcribe_audio neither starts
\* its transcription (the counter, the pool queue) nor hands it a rejection.
C21_TranscriptionWaitsForLoad ==
    [][\A c \in Callers :
        (/\ is_loading
         /\ pc[c] = "idle"
         /\ \E size \in SizeArgs, fail \in BeginFailures : TranscribeAudio(c, size, fail)) =>
            /\ active_transcriptions' = active_transcriptions
            /\ queue' = queue
            /\ pc'[c] # "idle"]_vars

\* ------------------------------------------------------ the Job state machine
\* C22, as stated: no job operation moves the status of a job out of COMPLETED
\* or out of FAILED.
C22_TerminalStatusIsFinal ==
    [][\A id \in DOMAIN jobs :
        (id \in DOMAIN jobs' /\ jobs[id].status \in {"COMPLETED", "FAILED"}) =>
            jobs'[id].status = jobs[id].status]_vars

\* C23, as stated: in every reachable state of every job, progress is 100 if
\* and only if the status is COMPLETED.
C23_Progress100IffCompleted ==
    \A id \in DOMAIN jobs :
        (jobs[id].progress = 100) <=> (jobs[id].status = "COMPLETED")

\* C23, amended: progress always lies in [0, 100]; a step that stores a result
\* leaves progress 100 and status COMPLETED; every other step that changes
\* progress leaves the status as it was, also when it stores 100.
C23_ProgressAndCompletion ==
    [][\A id \in DOMAIN jobs \cap DOMAIN jobs' :
        LET a == jobs[id]
            b == jobs'[id]
        IN  /\ b.progress \in 0..100
            /\ (b.result # a.result) =>
                    (b.progress = 100 /\ b.status = "COMPLETED")
            /\ (b.progress # a.progress) =>
                    \/ b.status = a.status
                    \/ (b.progress = 100 /\ b.status = "COMPLETED" /\ b.result # None)]_vars

\* A job at progress 100 that is still PROCESSING and has no result:
\* update_progress stored the 100.
C23_Witness ==
    \E id \in DOMAIN jobs :
        /\ jobs[id].progress = 100
        /\ jobs[id].status = "PROCESSING"
        /\ jobs[id].result = None

\* C24, as stated: in every reachable state of every job the error is non-null
\* if and only if the status is FAILED, and the result is non-null if and
\* only if the status is COMPLETED.
C24_ErrorIffFailedResultIffCompleted ==
    \A id \in DOMAIN jobs :
        /\ (jobs[id].error # None) <=> (jobs[id].status = "FAILED")
        /\ (jobs[id].result # None) <=> (jobs[id].status = "COMPLETED")

\* C25: for every value v, update_progress stores clamp(v, 0, 100) as the
\* progress of the job (0 for v below 0, 100 for v above 100), replaces the
\* message only when one is given, and leaves the status as it was.
C25_UpdateProgressClamps ==
    [][\A id \in DOMAIN jobs, v \in ProgressInputs, msg \in Messages :
        UpdateProgress(id, v, msg) =>
            /\ jobs'[id].progress = (IF v < 0 THEN 0 ELSE IF v > 100 THEN 100 ELSE v)
            /\ jobs'[id].message = (IF msg = None THEN jobs[id].message ELSE msg)
            /\ jobs'[id].status = jobs[id].status]_vars

\* A job that was given a message and a progress of 100 or more while PENDING.
C25_Witness ==
    \E id \in DOMAIN jobs :
        /\ jobs[id].progress = 100
        /\ jobs[id].status = "PENDING"
        /\ jobs[id].message = "Processing..."
        /\ jobs[id].result = None

\* C26, as stated: after set_result(r) on any job, whatever its earlier
\* progress and status, the job is COMPLETED at progress 100 with result r
\* and a null error.
C26_SetResultCompletes ==
    [][\A id \in DOMAIN jobs, r \in Results :
        SetResult(id, r) =>
            /\ jobs'[id].status = "COMPLETED"
            /\ jobs'[id].progress = 100
            /\ jobs'[id].result = r
            /\ jobs'[id].error = None]_vars

\* C27: after set_error(e) on any job, the job is FAILED, its error is e and
\* its message is e.
C27_SetErrorFails ==
    [][\A id \in DOMAIN jobs, e \in Errors :
        SetError(id, e) =>
            /\ jobs'[id].status = "FAILED"
            /\ jobs'[id].error = e
            /\ jobs'[id].message = e]_vars

\* A job that had a result and a message of its own has failed: error and
\* message both hold the error.
C27_Witness ==
    \E id \in DOMAIN jobs :
        /\ jobs[id].status = "FAILED"
        /\ jobs[id].error = "timed out"
        /\ jobs[id].message = "timed out"
        /\ jobs[id].result = "text"
        /\ jobs[id].progress = 50

\* C28: every create_job returns a job in PENDING with progress 0 under an id
\* no other created job has, also when the calls of several callers
\* interleave; a created job is found by get_job under its id until it is
\* deleted or reaped.
C28_CreatedJobsDistinctAndRetrievable ==
    /\ [](/\ \A i, j \in DOMAIN issued : issued[i] = issued[j] => i = j
          /\ \A i \in DOMAIN issued :
                issued[i] \notin removed =>
                    /\ issued[i] \in DOMAIN jobs
                    /\ get_job(jobs, issued[i]) = jobs[issued[i]])
    /\ [][\A c \in Callers : CreateJobRegister(c) =>
            LET id == issued'[Len(issued')] IN
            /\ id = creating[c].id
            /\ \A i \in DOMAIN issued : issued[i] # id
            /\ id \in DOMAIN jobs'
            /\ get_job(jobs', id).status = "PENDING"
            /\ get_job(jobs', id).progress = 0]_vars

\* Two callers were inside create_job at the same time; both jobs are
\* registered, a third job was created and deleted.
C28_Witness ==
    /\ Len(issued) = 3
    /\ issued[1] = 2
    /\ issued[2] = 1
    /\ removed = {3}
    /\ DOMAIN jobs = {1, 2}
    /\ jobs[1].created_at = jobs[2].created_at

\* C29: a job id is never reused: the id of a job removed by delete_job or by
\* cleanup_old_jobs was returned by one create_job only, names no
\* registered job and is not the id of a job under creation.
C29_RemovedIdNeverReused ==
    \A id \in removed :
        /\ id \notin DOMAIN jobs
        /\ \A c \in Callers : creating[c].id # id
        /\ Cardinality({i \in DOMAIN issued : issued[i] = id}) = 1

\* The first job was removed, and create_job returned two more ids after it,
\* one of them removed as well.
C29_Witness ==
    /\ Len(issued) = 3
    /\ issued[1] \in removed
    /\ issued[2] \in removed
    /\ issued[3] \in DOMAIN jobs
    /\ Cardinality(removed) = 2

\* C30: cleanup_old_jobs(max_age) removes exactly the jobs created before
\* now - max_age, whatever their status, and leaves every other job as it
\* was.
C30_CleanupRemovesExactlyOld ==
    [][\A max_age \in MaxAges : CleanupOldJobs(max_age) =>
        /\ \A id \in DOMAIN jobs :
                id \in DOMAIN jobs' <=> ~(jobs[id].created_at < now - max_age)
        /\ DOMAIN jobs' \subseteq DOMAIN jobs
        /\ \A id \in DOMAIN jobs' : jobs'[id] = jobs[id]]_vars

\* A reaping has just removed an unfinished job and kept a finished one:
\* job 1, old and reaped; job 2, COMPLETED, created exactly max_age = 1 ago
\* and kept; job 3, PROCESSING, new and kept.
C30_Witness ==
    /\ now = 2
    /\ removed = {1}
    /\ DOMAIN jobs = {2, 3}
    /\ jobs[2].created_at = 1
    /\ jobs[2].status = "COMPLETED"
    /\ jobs[3].created_at = 2
    /\ jobs[3].status = "PROCESSING"

\* C31: delete_job on an id that is not registered changes nothing in the
\* registry; delete_job on a registered id removes that job, get_job then
\* finds nothing under the id, and every other job stays as it was.
C31_DeleteJobRemovesOnlyThatJob ==
    [][\A id \in 1..MaxJobs : DeleteJob(id) =>
        /\ id \notin DOMAIN jobs => jobs' = jobs /\ removed' = removed
        /\ id \notin DOMAIN jobs'
        /\ get_job(jobs', id) = None
        /\ DOMAIN jobs' = DOMAIN jobs \ {id}
        /\ \A other \in DOMAIN jobs' : jobs'[other] = jobs[other]
        /\ UNCHANGED <<next_job, creating, issued, now>>]_vars

\* Job 2 of three was deleted (the clock has not moved, so nothing was
\* reaped); jobs 1 and 3 are registered, job 3 in PROCESSING.
C31_Witness ==
    /\ now = 0
    /\ removed = {2}
    /\ DOMAIN jobs = {1, 3}
    /\ jobs[1].status = "PENDING"
    /\ jobs[3].status = "PROCESSING"

\* C32: the registry changes only through JobManager operations: every step
\* that changes a registered job or the set of registered jobs is a
\* create_job, update_progress, set_status, set_result, set_error,
\* delete_job or cleanup_old_jobs, and nothing a caller holds changes a
\* registered job's fields.
C32_RegistryChangesOnlyThroughManager ==
    [][jobs' # jobs =>
        \/ \E c \in Callers : CreateJobRegister(c)
        \/ \E id \in DOMAIN jobs, v \in ProgressInputs, msg \in Messages :
                UpdateProgress(id, v, msg)
        \/ \E id \in DOMAIN jobs, status \in JobStatus, msg \in Messages :
                SetStatus(id, status, msg)
        \/ \E id \in DOMAIN jobs, r \in Results : SetResult(id, r)
        \/ \E id \in DOMAIN jobs, e \in Errors : SetError(id, e)
        \/ \E id \in 1..MaxJobs : DeleteJob(id)
        \/ \E max_age \in MaxAges : CleanupOldJobs(max_age)]_vars

\* C33: the model_used of a transcription response names the size of the
\* model that performed the transcription, also when the model was swapped
\* between the submission of the task and the construction of the response.
C33_ModelUsedNamesTheModelThatRan ==
    outcome.kind = "TranscriptionResponse" => outcome.model_used = outcome.ran_on.size

\* C34: a transcribe_audio called with model size s that completes
\* successfully had its model call executed by a model of size s, whatever
\* loads of other sizes interleave (here every transcription asks for
\* RequestedSize).
C34_RequestedSizePerformsTranscription ==
    outcome.kind = "TranscriptionResponse" => outcome.ran_on.size = RequestedSize

\* cleanup has returned: the executor is shut down and no caller is inside
\* shutdown(wait=True).
CleanupReturned == shutdown /\ ~LoopBlocked

\* C35: after cleanup has returned the service stays without a model (no
\* load_model that was in flight when cleanup ran installs one afterwards)
\* and no task is in the executor that was shut down.
C35_NoModelAfterCleanup ==
    CleanupReturned => /\ model = NoModel
                       /\ model_size = None
                       /\ running = {}
                       /\ queue = <<>>

\* cleanup has been called and has not returned.
CleanupStarted == \E c \in Callers : pc[c] \in {"cleanup_sleep", "cleanup_join"}

\* C36: once cleanup has started no new transcription is admitted: the
\* counter of active transcriptions does not increase while cleanup is
\* under way, so cleanup waits only for the transcriptions that were in
\* flight when it started.
C36_CleanupAdmitsNoTranscription ==
    [][CleanupStarted => active_transcriptions' <= active_transcriptions]_vars

\* C37: a load_model that acquired the loading state eventually ends and
\* releases it, also when the pool is saturated with transcription tasks:
\* its task gets a thread when one of them ends, and no transcription task
\* waits for a load.  Every pool task terminates (LoadFairness).
C37_AcquiredLoadEnds ==
    \A c \in Requests :
        (pc[c] = "load_await") ~> (pc[c] # "load_await" /\ ~is_loading)

\* A load task waits in the queue behind a pool whose threads all run
\* transcriptions, while its load_model holds the loading state.
C37_Witness ==
    /\ is_loading
    /\ Cardinality(running) = max_concurrent_transcriptions
    /\ \A t \in running : t.kind = "transcribe"
    /\ \E t \in QueuedTasks : t.kind = "load" /\ pc[t.caller] = "load_await"

\* C38: wherever a request handler can observe the service (between two
\* steps of the event loop), a model is loaded if and only if the model size
\* is not None, and the size is that of the load that produced the model,
\* after any sequence of successful, failed and rejected loads and cleanup.
C38_ModelAndSizeAgree ==
    /\ model # NoModel <=> model_size # None
    /\ model # NoModel => model.size = model_size

\* A model was loaded and a second load, of the other size, has failed in
\* the loader: the model of the first load is in place, with its size.
C38_Witness ==
    /\ model.id = 1
    /\ model_size = model.size
    /\ loads = 2
    /\ outcome.op = "load"
    /\ outcome.kind = "ModelLoadFailed"
    /\ outcome.original_error = "LoaderError"
    /\ outcome.model_size # model_size

\* C39: threads that construct WhisperService concurrently all obtain the
\* same instance, and its state is initialised at most once: one executor
\* is created, and no run of __init__ resets the fields (here the counter of
\* active transcriptions) once an executor exists.
C39_ConstructedOnce ==
    /\ [](\A t, u \in Threads :
            (thread[t].self # 0 /\ thread[u].self # 0) => thread[t].self = thread[u].self)
    /\ [](executors <= 1)
    /\ [][executors >= 1 => active_transcriptions' >= active_transcriptions]_vars

\* C40: temporary files never outlive their request: a caller whose POST
\* /transcribe has been answered (it is in no handler) has neither its
\* upload's temporary file nor a preprocessed file on disk, whatever the
\* outcome of the service call was, and a preprocessed file exists only
\* while its transcription awaits the pool.
C40_TempFilesDoNotOutliveRequest ==
    /\ \A c \in Callers :
            handler[c] = "none" => c \notin temp_files /\ c \notin processed
    /\ \A c \in processed : pc[c] = "transcribe_await" /\ c \in temp_files

\* The request of caller 1 has just been answered 500 after its model call
\* failed: none of its files is left, while the upload and the preprocessed
\* file of caller 2, whose transcription is in the pool, are on disk.
C40_Witness ==
    /\ response = Response("transcribe", 500)
    /\ outcome.caller = 1
    /\ outcome.kind = "TranscriptionFailed"
    /\ outcome.original_error = "ModelError"
    /\ handler[1] = "none"
    /\ temp_files = {2}
    /\ processed = {2}

====
